---- MODULE Spec2Model ----
(***************************************************************************)
(* Model of the two icon scripts of sticky-notes-web:                      *)
(*   create_icon.py       decodes an embedded base64 payload and writes    *)
(*                        the bytes to client/public/icon-128.png          *)
(*   create_new_icons.py  draws the sticky-note icon for the sizes 16, 48  *)
(*                        and 128 and saves each as a PNG under icons/     *)
(* Each script is a straight-line process; one action per statement.       *)
(* The file system is the only state that outlives a run.                  *)
(***************************************************************************)
EXTENDS Integers, Sequences, FiniteSets, TLC

VARIABLES
    script,     \* which program this behaviour runs
    \* ---- create_icon.py
    payload,    \* icon_base64: the embedded text, a sequence of symbols
    dpc,        \* position of create_icon.py
    icon_data,  \* result of base64.b64decode
    destFile,   \* client/public/icon-128.png: [exists, data]
    destFile0,  \* the destination as it was before the first run
    derr,       \* exception that ended the run, "none" if none
    dprinted,   \* "Icon created successfully." printed in this run
    \* ---- create_new_icons.py
    pc,         \* position of create_new_icons.py
    idx,        \* index into IconSizes of the create_icon call reached
    iconsDir,   \* client/public/icons: "absent", "dir" or "file"
    dirCreated, \* os.makedirs created the directory in this run
    files,      \* icons/icon<size>.png for each index: [exists, data]
    files0,     \* the icon files as they were when this run started
    err,        \* exception that ended the run, "none" if none
    printed,    \* "Icons generated successfully!" printed in this run
    \* ---- create_icon(size, filename) on its own
    size,       \* the size argument
    img,        \* the drawn image, NoImage before the call
    \* ---- re-runs of either script
    runs,       \* number of runs started
    firstOut    \* destination contents after the first successful run

decVars  == <<payload, dpc, icon_data, destFile, destFile0, derr, dprinted>>
drawVars == <<pc, idx, iconsDir, dirCreated, files, files0, err, printed>>
geomVars == <<size, img>>
vars == <<script, decVars, drawVars, geomVars, runs, firstOut>>

----------------------------------------------------------------------------
\* Bounds of the model

\* longest embedded payload text considered
MaxPayloadLen == 5
\* largest size argument of create_icon considered
MaxSize == 130
\* number of times a script is run in sequence
MaxRuns == 2

----------------------------------------------------------------------------
\* Symbols of the payload text.  0..63 are the values of the characters of
\* the base64 alphabet; the other symbols stand for a character class each.

\* '=' (BASE64_PAD)
PAD == 64
\* an ASCII character outside the alphabet ('!', '\n', ' ', ...)
JUNK == 65
\* a character outside ASCII
NONASCII == 66

\* alphabet characters the payloads are built from: 'A', 'Q', '/'
DataChars == {0, 16, 63}
Symbols == DataChars \cup {PAD, JUNK, NONASCII}

RECURSIVE SeqsUpTo(_, _)
SeqsUpTo(S, n) ==
    IF n = 0 THEN {<<>>}
    ELSE LET shorter == SeqsUpTo(S, n - 1)
         IN  shorter \cup {Append(s, x) : s \in {t \in shorter : Len(t) = n - 1}, x \in S}

Payloads == SeqsUpTo(Symbols, MaxPayloadLen)

----------------------------------------------------------------------------
\* base64.b64decode(s) with the default validate=False:
\* s.encode('ascii'), then binascii.a2b_base64 in its non-strict mode.

Ok(data)   == [err |-> "none", data |-> data]
Raise(exc) == [err |-> exc, data |-> <<>>]

\* binascii.a2b_base64: the scan over the characters.  A pad ends the scan
\* once the quad has two or more characters and the pads complete it;
\* every other pad and every character outside the alphabet is skipped.
RECURSIVE a2b_base64(_, _, _, _, _, _)
a2b_base64(s, i, quad_pos, leftchar, pads, out) ==
    IF i > Len(s)
    THEN IF quad_pos # 0 THEN Raise("binascii.Error") ELSE Ok(out)
    ELSE LET ch == s[i] IN
         IF ch = PAD
         THEN IF quad_pos >= 2 /\ quad_pos + pads + 1 >= 4
              THEN Ok(out)
              ELSE a2b_base64(s, i + 1, quad_pos, leftchar,
                              IF quad_pos >= 2 THEN pads + 1 ELSE pads, out)
         ELSE IF ch >= 64
         THEN a2b_base64(s, i + 1, quad_pos, leftchar, pads, out)
         ELSE CASE quad_pos = 0 ->
                     a2b_base64(s, i + 1, 1, ch, 0, out)
                [] quad_pos = 1 ->
                     a2b_base64(s, i + 1, 2, (ch % 16) * 16, 0,
                                Append(out, (leftchar * 4 + ch \div 16) % 256))
                [] quad_pos = 2 ->
                     a2b_base64(s, i + 1, 3, (ch % 4) * 64, 0,
                                Append(out, (leftchar + ch \div 4) % 256))
                [] quad_pos = 3 ->
                     a2b_base64(s, i + 1, 0, 0, 0,
                                Append(out, (leftchar + ch) % 256))

b64decode(s) ==
    IF \E i \in 1..Len(s) : s[i] = NONASCII
    THEN Raise("ValueError")
    ELSE a2b_base64(s, 1, 0, 0, 0, <<>>)


\* base64.b64encode: the text whose decoding the payload is meant to be
\* (three bytes to four characters, '=' padding the last quad).
RECURSIVE b64encode(_)
b64encode(b) ==
    IF Len(b) = 0 THEN <<>>
    ELSE IF Len(b) = 1
    THEN <<b[1] \div 4, (b[1] % 4) * 16, PAD, PAD>>
    ELSE IF Len(b) = 2
    THEN <<b[1] \div 4, (b[1] % 4) * 16 + b[2] \div 16, (b[2] % 16) * 4, PAD>>
    ELSE <<b[1] \div 4, (b[1] % 4) * 16 + b[2] \div 16,
           (b[2] % 16) * 4 + b[3] \div 64, b[3] % 64>>
         \o b64encode(SubSeq(b, 4, Len(b)))

----------------------------------------------------------------------------
\* Files

AbsentFile == [exists |-> FALSE, data |-> <<>>]
File(data) == [exists |-> TRUE, data |-> data]

\* open(path, 'wb'): the file is created, or truncated when it exists
OpenAppend(f) == File(f.data)
OpenWB(f) == File(<<>>)

\* f.write(data) on the open handle
WriteAllButLast(f, data) == File(f.data \o SubSeq(data, 1, Len(data) - 1))
WriteAll(f, data) == File(f.data \o data)

\* what the destination of create_icon.py may hold before the first run
OldDestFile == File(<<137, 80, 78, 71, 1>>)
DestFiles == {AbsentFile, OldDestFile}

----------------------------------------------------------------------------
\* create_icon.py

DecoderIdle ==
    /\ payload = <<>>
    /\ dpc = "idle"
    /\ icon_data = <<>>
    /\ destFile = AbsentFile
    /\ destFile0 = AbsentFile
    /\ derr = "none"
    /\ dprinted = FALSE

\* icon_data = base64.b64decode(icon_base64), with the open moved before it
DecodeAfterOpen ==
    /\ dpc = "decode"
    /\ LET r == b64decode(payload) IN
       /\ destFile' = OpenWB(destFile)
       /\ IF r.err = "none"
          THEN /\ icon_data' = r.data
               /\ dpc' = "write"
               /\ derr' = derr
          ELSE /\ icon_data' = icon_data
               /\ dpc' = "failed"
               /\ derr' = r.err
    /\ UNCHANGED <<script, payload, destFile0, dprinted, drawVars, geomVars, runs, firstOut>>

\* icon_data = base64.b64decode(icon_base64)
Decode ==
    /\ dpc = "decode"
    /\ LET r == b64decode(payload) IN
       IF r.err = "none"
       THEN /\ icon_data' = r.data
            /\ dpc' = "open"
            /\ derr' = derr
       ELSE /\ icon_data' = icon_data
            /\ dpc' = "failed"
            /\ derr' = r.err
    /\ UNCHANGED <<script, payload, destFile, destFile0, dprinted, drawVars, geomVars, runs, firstOut>>

\* with open(..., 'wb') as f:
Open ==
    /\ dpc = "open"
    /\ destFile' = OpenWB(destFile)
    /\ dpc' = "write"
    /\ UNCHANGED <<script, payload, icon_data, destFile0, derr, dprinted, drawVars, geomVars, runs, firstOut>>

\* open raises (the directory is missing or not writable): nothing is touched
OpenFail ==
    /\ dpc = "open"
    /\ derr' = "OSError"
    /\ dpc' = "failed"
    /\ UNCHANGED <<script, payload, icon_data, destFile, destFile0, dprinted, drawVars, geomVars, runs, firstOut>>

\* f.write(icon_data), then the handle is released
Write ==
    /\ dpc = "write"
    /\ destFile' = WriteAll(destFile, icon_data)
    /\ dpc' = "print"
    /\ UNCHANGED <<script, payload, icon_data, destFile0, derr, dprinted, drawVars, geomVars, runs, firstOut>>

\* the write raises part way (the device is full): a truncated file is left
WriteFail ==
    /\ dpc = "write"
    /\ \E k \in 0..(Len(icon_data) - 1) :
          destFile' = WriteAll(destFile, SubSeq(icon_data, 1, k))
    /\ derr' = "OSError"
    /\ dpc' = "failed"
    /\ UNCHANGED <<script, payload, icon_data, destFile0, dprinted, drawVars, geomVars, runs, firstOut>>

\* print("Icon created successfully.")
PrintCreated ==
    /\ dpc = "print"
    /\ dprinted' = TRUE
    /\ dpc' = "done"
    /\ firstOut' = IF firstOut = <<>> THEN <<destFile>> ELSE firstOut
    /\ UNCHANGED <<script, payload, icon_data, destFile, destFile0, derr, drawVars, geomVars, runs>>

\* the script is run again: the payload and the file system are as they are
RerunDecoder ==
    /\ dpc \in {"done", "failed"}
    /\ runs < MaxRuns
    /\ runs' = runs + 1
    /\ dpc' = "decode"
    /\ icon_data' = <<>>
    /\ derr' = "none"
    /\ dprinted' = FALSE
    /\ UNCHANGED <<script, payload, destFile, destFile0, drawVars, geomVars, firstOut>>

----------------------------------------------------------------------------
\* create_icon(size, filename): the measures and the drawing

\* padding = size // 8
padding(s) == s \div 8

\* rect_coords = [padding, padding, size - padding, size - padding]
rect_coords(s) == <<padding(s), padding(s), s - padding(s), s - padding(s)>>

\* shadow_offset = size // 16
shadow_offset_as_margin(s) == s \div 8
shadow_offset(s) == s \div 16

\* shadow_coords: rect_coords moved by shadow_offset down and right
shadow_coords(s) == [i \in 1..4 |-> rect_coords(s)[i] + shadow_offset(s)]

\* radius=size//5
radius_quarter(s) == s \div 4
radius(s) == s \div 5

\* line_x_start = rect_coords[0] + size // 4
line_x_start(s) == rect_coords(s)[1] + s \div 4

\* line_x_end = rect_coords[2] - size // 4
line_x_end_from_left(s) == rect_coords(s)[1] - s \div 4
line_x_end(s) == rect_coords(s)[3] - s \div 4

\* line_y_start = rect_coords[1] + size // 3
line_y_start_of_region(s) == rect_coords(s)[2] + (rect_coords(s)[4] - rect_coords(s)[2]) \div 3
line_y_start(s) == rect_coords(s)[2] + s \div 3

\* line_spacing = size // 6
line_spacing_half(s) == s \div 2
line_spacing(s) == s \div 6

\* width=size//12
line_width(s) == s \div 12

\* the fills: (0, 0, 0, 50), '#FEF08A', '#D97706'
ShadowFill == <<0, 0, 0, 50>>
NoteYellow == <<254, 240, 138, 255>>
Amber == <<217, 119, 6, 255>>

DrawOp(op, xy, param, fill) == [op |-> op, xy |-> xy, param |-> param, fill |-> fill]

\* Image.new('RGBA', (size, size), (0, 0, 0, 0)) and the four draw calls, in
\* order: shadow, body, first line, second line
DrawIcon(s) ==
    [dim |-> <<s, s>>,
     mode |-> "RGBA",
     ops |-> << DrawOp("rounded_rectangle", shadow_coords(s), radius(s), ShadowFill),
                DrawOp("rounded_rectangle", rect_coords(s), radius(s), NoteYellow),
                DrawOp("line",
                       <<line_x_start(s), line_y_start(s), line_x_end(s), line_y_start(s)>>,
                       line_width(s), Amber),
                DrawOp("line",
                       <<line_x_start(s), line_y_start(s) + line_spacing(s),
                         line_x_end(s), line_y_start(s) + line_spacing(s)>>,
                       line_width(s), Amber) >>]

NoImage == [dim |-> <<0, 0>>, mode |-> "none", ops |-> <<>>]

\* img.save(filename): the PNG stream of the image, chunk by chunk.  The
\* pixels are the transparent canvas with the draw calls applied in order,
\* so the stream is a function of the image and of nothing else.
PngOf(image) ==
    << [type |-> "IHDR", body |-> <<[dim |-> image.dim, mode |-> image.mode]>>],
       [type |-> "IDAT", body |-> image.ops],
       [type |-> "IEND", body |-> <<>>] >>

\* the sizes and the files of the three calls:
\* create_icon(16, '.../icons/icon16.png'), (48, ...), (128, ...)
IconSizes == <<16, 48, 128>>
IconIdx == 1..Len(IconSizes)

\* what an icon file may hold before the first run: a PNG of another drawing
OldIconFile == File(PngOf([dim |-> <<1, 1>>, mode |-> "RGBA", ops |-> <<>>]))

----------------------------------------------------------------------------
\* create_new_icons.py

DrawerIdle ==
    /\ pc = "idle"
    /\ idx = 0
    /\ iconsDir = "absent"
    /\ dirCreated = FALSE
    /\ files = [i \in IconIdx |-> AbsentFile]
    /\ files0 = files
    /\ err = "none"
    /\ printed = FALSE

\* the script without its os.makedirs line
MakeDirsSkipped ==
    /\ pc = "makedirs"
    /\ pc' = "icon"
    /\ idx' = 1
    /\ UNCHANGED <<script, decVars, iconsDir, dirCreated, files, files0, err, printed, geomVars, runs, firstOut>>

\* os.makedirs('.../icons', exist_ok=True): creates the directory when it
\* is absent, does nothing when it is there
MakeDirs ==
    /\ pc = "makedirs"
    /\ iconsDir \in {"absent", "dir"}
    /\ iconsDir' = "dir"
    /\ dirCreated' = (iconsDir = "absent")
    /\ pc' = "icon"
    /\ idx' = 1
    /\ UNCHANGED <<script, decVars, files, files0, err, printed, geomVars, runs, firstOut>>

\* os.makedirs raises: the path is a file (FileExistsError), or the
\* directory is absent and cannot be created (PermissionError)
MakeDirsFail ==
    /\ pc = "makedirs"
    /\ iconsDir \in {"absent", "file"}
    /\ err' = IF iconsDir = "file" THEN "FileExistsError" ELSE "PermissionError"
    /\ pc' = "failed"
    /\ UNCHANGED <<script, decVars, idx, iconsDir, dirCreated, files, files0, printed, geomVars, runs, firstOut>>

\* where the script goes after the call for index i failed, were the
\* exception swallowed
AfterFailedCallContinue(i) == IF i < Len(IconSizes) THEN "icon" ELSE "print"
\* where the script goes after the call for index i raised
AfterFailedCall(i) == "failed"

\* create_icon(IconSizes[idx], ...) returns: the image is drawn and saved
CreateIcon ==
    /\ pc = "icon"
    /\ iconsDir = "dir"
    /\ files' = [files EXCEPT ![idx] = File(PngOf(DrawIcon(IconSizes[idx])))]
    /\ IF idx < Len(IconSizes)
       THEN idx' = idx + 1 /\ pc' = pc
       ELSE idx' = idx /\ pc' = "print"
    /\ UNCHANGED <<script, decVars, iconsDir, dirCreated, files0, err, printed, geomVars, runs, firstOut>>

\* img.save raises: the file could not be opened (it is left as it was) or
\* the write stopped part way (a truncated stream is left)
CreateIconFail ==
    /\ pc = "icon"
    /\ \/ files' = files
       \/ /\ iconsDir = "dir"
          /\ \E k \in 0..2 :
                files' = [files EXCEPT ![idx] =
                            File(SubSeq(PngOf(DrawIcon(IconSizes[idx])), 1, k))]
    /\ err' = "OSError"
    /\ pc' = AfterFailedCall(idx)
    /\ idx' = IF pc' = "icon" THEN idx + 1 ELSE idx
    /\ UNCHANGED <<script, decVars, iconsDir, dirCreated, files0, printed, geomVars, runs, firstOut>>

\* print("Icons generated successfully!")
PrintGenerated ==
    /\ pc = "print"
    /\ printed' = TRUE
    /\ pc' = "done"
    /\ firstOut' = IF firstOut = <<>> THEN <<files>> ELSE firstOut
    /\ UNCHANGED <<script, decVars, idx, iconsDir, dirCreated, files, files0, err, geomVars, runs>>

\* the script is run again on the file system as the last run left it
RerunDrawer ==
    /\ pc \in {"done", "failed"}
    /\ runs < MaxRuns
    /\ runs' = runs + 1
    /\ pc' = "makedirs"
    /\ idx' = 0
    /\ dirCreated' = FALSE
    /\ files0' = files
    /\ err' = "none"
    /\ printed' = FALSE
    /\ UNCHANGED <<script, decVars, iconsDir, files, geomVars, firstOut>>

----------------------------------------------------------------------------
\* create_icon called with any size: the drawing part (lines 6 to 29)

GeomIdle ==
    /\ size = 0
    /\ img = NoImage

CallCreateIcon ==
    /\ script = "create_icon"
    /\ img = NoImage
    /\ img' = DrawIcon(size)
    /\ UNCHANGED <<script, decVars, drawVars, size, runs, firstOut>>

----------------------------------------------------------------------------
\* Specifications

InitDecoder ==
    /\ script = "create_icon.py"
    /\ payload \in Payloads
    /\ dpc = "decode"
    /\ icon_data = <<>>
    /\ destFile \in DestFiles
    /\ destFile0 = destFile
    /\ derr = "none"
    /\ dprinted = FALSE
    /\ DrawerIdle
    /\ GeomIdle
    /\ runs = 1
    /\ firstOut = <<>>

InitDrawer ==
    /\ script = "create_new_icons.py"
    /\ DecoderIdle
    /\ pc = "makedirs"
    /\ idx = 0
    /\ iconsDir \in {"absent", "dir", "file"}
    /\ dirCreated = FALSE
    /\ files \in IF iconsDir = "dir"
                 THEN [IconIdx -> {AbsentFile, OldIconFile}]
                 ELSE {[i \in IconIdx |-> AbsentFile]}
    /\ files0 = files
    /\ err = "none"
    /\ printed = FALSE
    /\ GeomIdle
    /\ runs = 1
    /\ firstOut = <<>>

InitGeom ==
    /\ script = "create_icon"
    /\ DecoderIdle
    /\ DrawerIdle
    /\ size \in 1..MaxSize
    /\ img = NoImage
    /\ runs = 1
    /\ firstOut = <<>>

NextDecoder ==
    \/ Decode
    \/ Open
    \/ OpenFail
    \/ Write
    \/ WriteFail
    \/ PrintCreated
    \/ RerunDecoder

NextDrawer ==
    \/ MakeDirs
    \/ MakeDirsFail
    \/ CreateIcon
    \/ CreateIconFail
    \/ PrintGenerated
    \/ RerunDrawer

NextGeom == CallCreateIcon

\* either script, run and re-run
Init == InitDecoder \/ InitDrawer
Next == NextDecoder \/ NextDrawer
Spec == Init /\ [][Next]_vars

SpecDecoder == InitDecoder /\ [][NextDecoder]_vars
SpecDrawer == InitDrawer /\ [][NextDrawer]_vars
SpecGeom == InitGeom /\ [][NextGeom]_vars

----------------------------------------------------------------------------
\* Properties of create_icon.py

\* Well-formed base64 text (RFC 4648): whole quads of alphabet characters,
\* the last quad ending in at most two pads.
WellFormed(s) ==
    /\ Len(s) % 4 = 0
    /\ \A i \in 1..Len(s) :
          \/ s[i] \in 0..63
          \/ s[i] = PAD /\ i >= Len(s) - 1 /\ \A j \in i..Len(s) : s[j] = PAD

\* the bytes whose encodings are built from DataChars
SampleBytes ==
    {a * 4 + b \div 16 : a \in DataChars, b \in DataChars}
    \cup {(a % 16) * 16 + b \div 4 : a \in DataChars, b \in DataChars}
    \cup {(a % 4) * 64 + b : a \in DataChars, b \in DataChars}

\* the payloads that are the encoding of some byte string
ValidPayloads ==
    {b64encode(b) : b \in SeqsUpTo(SampleBytes, (MaxPayloadLen \div 4) * 3)} \cap Payloads

DecodeRaises == b64decode(payload).err # "none"

\* the run stopped in the decode step and left everything as it was
StoppedInDecode ==
    /\ dpc \in {"decode", "failed"}
    /\ dpc = "failed" => derr \in {"binascii.Error", "ValueError"}
    /\ destFile = destFile0
    /\ ~dprinted

\* C1 as stated: whenever the embedded payload is not valid base64, the run
\* fails in the decode step, the destination is never created, truncated or
\* overwritten, and the success message is never printed.
C1_AnyInvalidPayloadFails ==
    (script = "create_icon.py" /\ ~WellFormed(payload)) => StoppedInDecode

\* C1 amended: whenever b64decode raises on the payload (a character
\* outside ASCII, or alphabet characters that end inside a quad no padding
\* completes), the run fails in the decode step with that error, the
\* destination stays as it was before the first run, and the success
\* message is never printed.
C1_DecodeErrorBeforeWrite ==
    (script = "create_icon.py" /\ DecodeRaises) =>
        (StoppedInDecode /\ (dpc = "failed" => derr = b64decode(payload).err))

\* a second run of a payload with a dangling quad has failed too, the old
\* file still in place
C1_Witness ==
    /\ script = "create_icon.py"
    /\ dpc = "failed"
    /\ derr = "binascii.Error"
    /\ runs = 2
    /\ destFile = OldDestFile

\* C3: for every payload that is the base64 encoding of a byte string,
\* after a successful run the destination exists and holds exactly those
\* bytes (encoding what is read back gives the payload again).
C3_RoundTrip ==
    (script = "create_icon.py" /\ dpc = "done" /\ payload \in ValidPayloads) =>
        /\ destFile.exists
        /\ b64encode(destFile.data) = payload
        /\ destFile.data = icon_data

\* a three-byte payload written over the longer old file
C3_Witness ==
    /\ script = "create_icon.py"
    /\ dpc = "done"
    /\ payload \in ValidPayloads
    /\ destFile0 = OldDestFile
    /\ Len(destFile.data) = 3

----------------------------------------------------------------------------
\* Properties of both scripts

\* the PNG the call for index i saves
IconFile(i) == File(PngOf(DrawIcon(IconSizes[i])))

\* C2: every successful run of either script leaves each destination file
\* with the content the first successful run left, whatever was there
\* before the first run.
C2_Idempotent ==
    /\ (script = "create_icon.py" /\ dpc = "done") =>
          (firstOut # <<>> /\ destFile = firstOut[1])
    /\ (script = "create_new_icons.py" /\ pc = "done") =>
          (firstOut # <<>> /\ files = firstOut[1])

\* the second run of the drawer has succeeded on the files the first
\* successful run left
C2_Witness ==
    /\ script = "create_new_icons.py"
    /\ pc = "done"
    /\ runs = 2
    /\ files0 = [i \in IconIdx |-> IconFile(i)]

----------------------------------------------------------------------------
\* Properties of create_new_icons.py

\* C9: the icons directory is there whenever a create_icon call is reached
\* and whenever an icon file has been written, whether os.makedirs found it
\* or created it.
C9_DirectoryBeforeWrite ==
    script = "create_new_icons.py" =>
        /\ pc \in {"icon", "print", "done"} => iconsDir = "dir"
        /\ files # files0 => iconsDir = "dir"
        /\ dirCreated => iconsDir = "dir"

\* the directory was absent, os.makedirs created it, and the icons were
\* written
C9_Witness ==
    /\ script = "create_new_icons.py"
    /\ dirCreated
    /\ pc = "done"
    /\ files # files0

\* C10: the calls run in the order 16, 48, 128; at every moment of a run
\* the files of the calls that returned hold their icons and the files of
\* the calls not reached are as the run found them; a failure ends the run
\* at the failing step with no message printed; the message is printed only
\* after all three files are written.
C10_FailFast ==
    script = "create_new_icons.py" =>
        /\ pc = "makedirs" => files = files0
        /\ pc = "icon" =>
              \A i \in IconIdx : files[i] = IF i < idx THEN IconFile(i) ELSE files0[i]
        /\ pc = "failed" =>
              /\ ~printed
              /\ err # "none"
              /\ \A i \in IconIdx :
                    /\ i < idx => files[i] = IconFile(i)
                    /\ i > idx => files[i] = files0[i]
        /\ pc \in {"print", "done"} => \A i \in IconIdx : files[i] = IconFile(i)
        /\ printed => pc = "done"

\* the call for size 48 failed: icon16.png is written, icon128.png is
\* untouched
C10_Witness ==
    /\ script = "create_new_icons.py"
    /\ pc = "failed"
    /\ idx = 2
    /\ err = "OSError"
    /\ files[1] = IconFile(1)
    /\ files0[1] # IconFile(1)
    /\ files[3] = files0[3]
    /\ files[3] # IconFile(3)

----------------------------------------------------------------------------
\* Properties of create_icon(size, filename)

Drawn == script = "create_icon" /\ img # NoImage
Shadow == img.ops[1]
Body == img.ops[2]
Line1 == img.ops[3]
Line2 == img.ops[4]

\* C4: for every size >= 16 the shadow is moved by size // 16, more than
\* nothing and strictly less than the margin size // 8.
C4_ShadowInsideMargin ==
    (Drawn /\ size >= 16) =>
        LET margin == Body.xy[1]
            offset == Shadow.xy[1] - Body.xy[1]
        IN  /\ margin = size \div 8
            /\ offset = size \div 16
            /\ \A i \in 1..4 : Shadow.xy[i] = Body.xy[i] + offset
            /\ 0 < offset
            /\ offset < margin

C4_Witness == Drawn /\ size = 16 /\ Shadow.xy[1] = 3

Measures(margin, rad, offset, width) ==
    /\ Body.xy = <<margin, margin, size - margin, size - margin>>
    /\ Body.param = rad
    /\ Shadow.param = rad
    /\ Shadow.xy[1] - Body.xy[1] = offset
    /\ Line1.param = width
    /\ Line2.param = width

\* C5: size 128 gives margin 16, radius 25, shadow offset 8 and stroke
\* width 10; size 16 gives margin 2, radius 3, shadow offset 1 and stroke
\* width 1.
C5_ScenarioMeasures ==
    /\ (Drawn /\ size = 128) => Measures(16, 25, 8, 10)
    /\ (Drawn /\ size = 16) => Measures(2, 3, 1, 1)

C5_Witness == Drawn /\ size = 128 /\ img.dim = <<128, 128>>

\* C6: for every size >= 1 every coordinate of the two boxes and the two
\* lines lies in 0..size, every measure is >= 0, and every box and line has
\* its first corner at or before its second.
C6_NoNegativeGeometry ==
    Drawn =>
        /\ \A k \in 1..4 :
              /\ \A i \in 1..4 : img.ops[k].xy[i] \in 0..size
              /\ img.ops[k].xy[1] <= img.ops[k].xy[3]
              /\ img.ops[k].xy[2] <= img.ops[k].xy[4]
              /\ img.ops[k].param >= 0
        /\ Body.xy[1] >= 0
        /\ Shadow.xy[1] - Body.xy[1] >= 0
        /\ Line2.xy[2] - Line1.xy[2] >= 0

\* a size below 8: margin, shadow offset and stroke width collapse to zero
C6_Witness == Drawn /\ size = 7 /\ Body.xy[1] = 0 /\ Line1.param = 0

\* C7 as stated: the first line is at the region top plus one third of the
\* region height size - 2 * (size // 8); the second is size // 6 below it.
C7_ThirdOfRegionHeight ==
    Drawn =>
        /\ Line1.xy[2] = size \div 8 + (size - 2 * (size \div 8)) \div 3
        /\ Line2.xy[2] = Line1.xy[2] + size \div 6

\* C7 amended: the first line is at the region top size // 8 plus one
\* third of the size, size // 3; the second is size // 6 below it; each
\* line is horizontal.
C7_ThirdOfSize ==
    Drawn =>
        /\ Line1.xy[2] = size \div 8 + size \div 3
        /\ Line2.xy[2] = Line1.xy[2] + size \div 6
        /\ Line1.xy[4] = Line1.xy[2]
        /\ Line2.xy[4] = Line2.xy[2]

\* size 16: the first line is at 2 + 5 = 7, not at 2 + 4 = 6
C7_Witness == Drawn /\ size = 16 /\ Line1.xy[2] = 7 /\ Line2.xy[2] = 9

\* C8: for every size >= 1, with p = size // 8, both lines run from
\* p + size // 4 to size - p - size // 4, start <= end, at heights between
\* the body's top p and bottom size - p.
C8_LinesInsideBody ==
    Drawn =>
        LET p == size \div 8 IN
        /\ Body.xy = <<p, p, size - p, size - p>>
        /\ \A L \in {Line1, Line2} :
              /\ L.xy[1] = p + size \div 4
              /\ L.xy[3] = size - p - size \div 4
              /\ L.xy[1] <= L.xy[3]
              /\ L.xy[2] >= p
              /\ L.xy[2] <= size - p
              /\ L.xy[4] = L.xy[2]
        /\ Line2.xy[2] = Line1.xy[2] + size \div 6

C8_Witness == Drawn /\ size = 48 /\ Line2.xy[2] = 30 /\ Line1.xy[1] = 18

====
